---------------------------- MODULE Spec2Model ----------------------------
(***************************************************************************)
(* Model of src/getinfo.ts: the election-canvass extraction pipeline.      *)
(*                                                                         *)
(* JavaScript strings are modelled as sequences of one-character strings,  *)
(* so that indexing (precinct[1]), the regular expression /\d\d\d\d\d/ and *)
(* parseInt are computed character by character as the runtime does.       *)
(* JavaScript numbers are [nan |-> BOOLEAN, v |-> Int]; NaN is its own     *)
(* value and is never === to anything, itself included.                    *)
(***************************************************************************)
EXTENDS Integers, Sequences, FiniteSets, TLC

VARIABLES
    pc,               \* position of the run: see the actions
    pageNum,          \* extractRecords: the loop variable of the page loop
    content,          \* extractRecords: items of the page last fetched
    fetched,          \* numbers of items and of lines fetched so far
    records,          \* extractRecords: the retained candidate groups
    idx,              \* number of groups the repair map has already handled
    cleanerRecords,   \* extractRecords: results of the repair map, in order
    warned,           \* arguments of the console.warn calls, in order
    err,              \* arguments of the console.error calls, in order
    measureCRecords,  \* Frame of measure C
    measureDRecords,  \* Frame of measure D
    files,            \* names of the output files whose write has begun
    closed,           \* names of the output files whose write has finished
    fnArg,            \* argument of the function under call (function specs)
    fnOut             \* its outcome

vars == <<pc, pageNum, content, fetched, records, idx, cleanerRecords, warned,
          err, measureCRecords, measureDRecords, files, closed, fnArg, fnOut>>

-----------------------------------------------------------------------------
(* Bounds of the model *)

\* longest identifier string handed to assignCity in SpecFn
MaxIdLen == 3
\* most items a document holds in SpecGrouper
MaxItems == 5
\* most lines a document holds in Spec
MaxLines == 2

-----------------------------------------------------------------------------
(* JavaScript values *)

NaN == [nan |-> TRUE, v |-> 0]

Num(n) == [nan |-> FALSE, v |-> n]

\* a === b on numbers: NaN equals nothing
StrictEq(a, b) == ~a.nan /\ ~b.nan /\ a.v = b.v

DigitChars == {"0", "1", "2", "3", "4", "5", "6", "7", "8", "9"}

DigitVal(c) ==
    CASE c = "0" -> 0 [] c = "1" -> 1 [] c = "2" -> 2 [] c = "3" -> 3
      [] c = "4" -> 4 [] c = "5" -> 5 [] c = "6" -> 6 [] c = "7" -> 7
      [] c = "8" -> 8 [] c = "9" -> 9

RECURSIVE SkipSpaces(_)
SkipSpaces(s) ==
    IF s # <<>> /\ Head(s) = " " THEN SkipSpaces(Tail(s)) ELSE s

RECURSIVE DigitsValue(_, _)
\* value of the longest prefix of decimal digits of s, acc being the value of
\* the digits already read
DigitsValue(s, acc) ==
    IF s # <<>> /\ Head(s) \in DigitChars
    THEN DigitsValue(Tail(s), 10 * acc + DigitVal(Head(s)))
    ELSE acc

\* parseInt(string): leading white space is skipped, then an optional sign,
\* then the longest run of decimal digits; no digit gives NaN.  (No string
\* of the model starts with "0x", the one case parseInt reads in base 16.)
parseInt(s) ==
    LET t == SkipSpaces(s)
        signed == t # <<>> /\ Head(t) \in {"-", "+"}
        u == IF signed THEN Tail(t) ELSE t
    IN  IF u = <<>> \/ Head(u) \notin DigitChars
        THEN NaN
        ELSE IF signed /\ Head(t) = "-"
             THEN Num(0 - DigitsValue(u, 0))
             ELSE Num(DigitsValue(u, 0))

\* String(0) and String(NaN): parseInt converts a number argument to its
\* string before parsing it
Str0 == <<"0">>

StrNaN == <<"N", "a", "N">>

\* a function call either returns a value or throws
Return(v) == [thrown |-> FALSE, value |-> v]

Throw(e) == [thrown |-> TRUE, error |-> e]

-----------------------------------------------------------------------------
(* Field Classifier *)

ElectionDay == <<"E", "l", "e", "c", "t", "i", "o", "n", " ", "D", "a", "y">>

VoteByMail == <<"V", "o", "t", "e", " ", "b", "y", " ", "M", "a", "i", "l">>

Total == <<"T", "o", "t", "a", "l">>

validMethods == {ElectionDay, VoteByMail, Total}

\* string indices, 0-based as in the source
PRECINCT_COUNTY_DIGIT == 0

PRECINCT_CITY_DIGIT == 1

digitToCity ==
    ("0" :> "Unincorporated") @@ ("1" :> "Santa Cruz") @@ ("2" :> "Capitola")
    @@ ("3" :> "Watsonville") @@ ("4" :> "Scotts Valley")

\* precinct[i]: the character at 0-based index i, "undefined" past the end
CharAt(precinct, i) ==
    IF i + 1 \in DOMAIN precinct THEN precinct[i + 1] ELSE "undefined"

\* mutant of assignCity: the two digit positions exchanged
assignCitySwapped(precinct) ==
    IF \/ precinct = <<>>
       \/ Len(precinct) < 1
       \/ CharAt(precinct, PRECINCT_COUNTY_DIGIT) \notin DOMAIN digitToCity
    THEN Throw(<<"Invalid precinct">>)
    ELSE LET city == digitToCity[CharAt(precinct, PRECINCT_COUNTY_DIGIT)]
             county == CharAt(precinct, PRECINCT_CITY_DIGIT)
         IN  IF city = "Unincorporated"
             THEN CASE county = "1" -> Return("Unincorporated D1")
                    [] county = "2" -> Return("Unincorporated D2")
                    [] county = "3" -> Return("Unincorporated D3")
                    [] county = "4" -> Return("Unincorporated D4")
                    [] county = "5" -> Return("Unincorporated D5")
                    [] OTHER -> Return("Unincorporated")
             ELSE Return(city)

assignCity(precinct) ==
    IF \/ precinct = <<>>
       \/ Len(precinct) < 1
       \/ CharAt(precinct, PRECINCT_CITY_DIGIT) \notin DOMAIN digitToCity
    THEN Throw(<<"Invalid precinct">>)
    ELSE LET city == digitToCity[CharAt(precinct, PRECINCT_CITY_DIGIT)]
             county == CharAt(precinct, PRECINCT_COUNTY_DIGIT)
         IN  IF city = "Unincorporated"
             THEN CASE county = "1" -> Return("Unincorporated D1")
                    [] county = "2" -> Return("Unincorporated D2")
                    [] county = "3" -> Return("Unincorporated D3")
                    [] county = "4" -> Return("Unincorporated D4")
                    [] county = "5" -> Return("Unincorporated D5")
                    [] OTHER -> Return("Unincorporated")
             ELSE Return(city)

assignDistrict(precinct) ==
    IF CharAt(precinct, PRECINCT_COUNTY_DIGIT) \notin {"1", "2", "3", "4", "5"}
    THEN Throw(<<"Invalid district code in precinct: ", precinct>>)
    ELSE Return(<<"D", CharAt(precinct, PRECINCT_COUNTY_DIGIT)>>)

-----------------------------------------------------------------------------
(* Record Assembler *)

RecordLength == 9

\* the Raw Record of the first nine fields of record
RawRecordOf(record, city, district) ==
    ("Precinct" :> record[1])
    @@ ("City" :> city)
    @@ ("District" :> district)
    @@ ("Method" :> record[2])
    @@ ("Registered Voters" :> parseInt(record[3]))
    @@ ("Ballots Cast" :> parseInt(record[4]))
    @@ ("Measure C - YES" :> parseInt(record[6]))
    @@ ("Measure C - NO" :> parseInt(record[7]))
    @@ ("Measure D - YES" :> parseInt(record[8]))
    @@ ("Measure D - NO" :> parseInt(record[9]))

\* mutant of assignRecordFromArray: only lists that are too short are refused
assignRecordFromArrayAtLeast(record) ==
    IF Len(record) < RecordLength
    THEN Throw(<<"Record incorrect length">>)
    ELSE LET city == assignCity(record[1])
             district == assignDistrict(record[1])
         IN  IF city.thrown THEN city
             ELSE IF district.thrown THEN district
             ELSE Return(RawRecordOf(record, city.value, district.value))

\* record is a 1-based sequence; record[k + 1] is the source's record[k]
assignRecordFromArray(record) ==
    IF Len(record) # RecordLength
    THEN Throw(<<"Record incorrect length">>)
    ELSE LET city == assignCity(record[1])
             district == assignDistrict(record[1])
         IN  IF city.thrown THEN city
             ELSE IF district.thrown THEN district
             ELSE Return(RawRecordOf(record, city.value, district.value))

-----------------------------------------------------------------------------
(* Run Grouper *)

FirstPage == 131

LastPage == 136

\* record[0].match(/\d\d\d\d\d/): five consecutive digits anywhere in s
MatchesFiveDigits(s) ==
    \E i \in 1..(Len(s) - 4) : \A k \in 0..4 : s[i + k] \in DigitChars

\* the test of a closed buffer: is it appended to records?
Retained(record) == Len(record) > 2 /\ MatchesFiveDigits(record[1])

RECURSIVE forEachItemKeepingRejected(_, _, _)
\* mutant of forEachItem: the buffer is emptied only when the group is kept
forEachItemKeepingRejected(items, record, recs) ==
    IF items = <<>> THEN recs
    ELSE LET item == Head(items)
         IN  IF "str" \notin DOMAIN item
             THEN forEachItemKeepingRejected(Tail(items), record, recs)
             ELSE LET pushed == Append(record, item.str)
                  IN  IF item.hasEOL /\ Retained(pushed)
                      THEN forEachItemKeepingRejected(Tail(items), <<>>,
                               Append(recs, pushed))
                      ELSE forEachItemKeepingRejected(Tail(items), pushed,
                                                      recs)

RECURSIVE forEachItem(_, _, _)
\* content.items.forEach(...): record is the buffer, recs the groups retained
\* so far; the result is recs after the last item (the buffer is dropped)
forEachItem(items, record, recs) ==
    IF items = <<>> THEN recs
    ELSE LET item == Head(items)
         IN  IF "str" \notin DOMAIN item
             THEN forEachItem(Tail(items), record, recs)
             ELSE LET pushed == Append(record, item.str)
                  IN  IF item.hasEOL
                      THEN forEachItem(Tail(items), <<>>,
                               IF Retained(pushed) THEN Append(recs, pushed)
                               ELSE recs)
                      ELSE forEachItem(Tail(items), pushed, recs)

\* an item of a page's text content
TextItem(s, eol) == [str |-> s, hasEOL |-> eol]

\* an item without a "str" property (marked content)
MarkedContent == [type |-> "beginMarkedContent"]

\* token texts
S20470 == <<"2", "0", "4", "7", "0">>

SWord == <<"P", "c", "t">>

\* pages of at most n items, each a short text with or without the
\* end-of-line flag, or a marked-content item
ItemKinds ==
    {TextItem(s, eol) : s \in {S20470, SWord}, eol \in BOOLEAN}
    \cup {MarkedContent}

ItemPages(n) == UNION {[1..k -> ItemKinds] : k \in 0..n}

\* number of end-of-line flags among items
EndOfLines(items) ==
    Cardinality({i \in DOMAIN items :
                    "str" \in DOMAIN items[i] /\ items[i].hasEOL})

\* One turn of the page loop: the page is fetched, its items are folded into
\* records starting from an empty buffer, and the loop variable advances.
GetPage(Contents) ==
    /\ pc = "pages"
    /\ pageNum <= LastPage
    /\ \E items \in Contents :
          /\ content' = items
          /\ fetched' = [items |-> fetched.items + Len(items),
                          lines |-> fetched.lines + EndOfLines(items)]
          /\ records' = forEachItem(items, <<>>, records)
    /\ pageNum' = pageNum + 1
    /\ UNCHANGED <<pc, idx, cleanerRecords, warned, err, measureCRecords,
                   measureDRecords, files, closed, fnArg, fnOut>>

InitPipeline ==
    /\ pc = "pages"
    /\ pageNum = FirstPage
    /\ content = <<>>
    /\ fetched = [items |-> 0, lines |-> 0]
    /\ records = <<>>
    /\ idx = 0
    /\ cleanerRecords = <<>>
    /\ warned = <<>>
    /\ err = <<>>
    /\ measureCRecords = <<>>
    /\ measureDRecords = <<>>
    /\ files = {}
    /\ closed = {}
    /\ fnArg = <<>>
    /\ fnOut = <<>>

NextGrouper == GetPage(ItemPages(MaxItems - fetched.items))

\* the page loop alone, over arbitrary short item streams
SpecGrouper == InitPipeline /\ [][NextGrouper]_vars

-----------------------------------------------------------------------------
(* Record Repair Pipeline *)

Undefined == <<"undefined">>

\* record[k], 0-based as in the source; Undefined past the end
FieldAt(record, k) ==
    IF k + 1 \in DOMAIN record THEN record[k + 1] ELSE Undefined

IsBlank(field) == field = <<>> \/ field = <<" ">>

RECURSIVE Strip(_)
\* record.filter((field) => field != "" && field != " ")
Strip(record) ==
    IF record = <<>> THEN <<>>
    ELSE IF IsBlank(Head(record)) THEN Strip(Tail(record))
    ELSE <<Head(record)>> \o Strip(Tail(record))

\* the rows of the manuallyFixedRecords literal
manuallyFixedRows ==
    << <<<<"2", "0", "4", "7", "0">>, VoteByMail, <<"4", "1">>, <<"5">>, <<"1", "2", ".", "2", "0", " ", "%">>, <<"5">>, <<"0">>, <<"4">>, <<"1">>>>,
       <<<<"2", "0", "4", "7", "0">>, Total, <<"4", "1">>, <<"5">>, <<"1", "2", ".", "2", "0", " ", "%">>, <<"5">>, <<"0">>, <<"4">>, <<"1">>>>,
       <<<<"2", "3", "4", "1", "0">>, ElectionDay, <<"1", "9", "3">>, <<"2">>, <<"1", ".", "0", "4", " ", "%">>, <<"2">>, <<"0">>, <<"0">>, <<"2">>>>,
       <<<<"2", "3", "6", "6", "0">>, ElectionDay, <<"1">>, <<"1">>, <<"1", "0", "0", ".", "0", "0", " ", "%">>, <<"1">>, <<"0">>, <<"1">>, <<"0">>>>,
       <<<<"2", "3", "6", "6", "0">>, Total, <<"1">>, <<"1">>, <<"1", "0", "0", ".", "0", "0", " ", "%">>, <<"1">>, <<"0">>, <<"1">>, <<"0">>>>,
       <<<<"4", "0", "0", "1", "0">>, ElectionDay, <<"3">>, <<"1">>, <<"3", "3", ".", "3", "3", " ", "%">>, <<"0">>, <<"1">>, <<"0">>, <<"1">>>>,
       <<<<"4", "0", "0", "1", "0">>, VoteByMail, <<"3">>, <<"1">>, <<"3", "3", ".", "3", "3", " ", "%">>, <<"1">>, <<"0">>, <<"1">>, <<"0">>>>,
       <<<<"4", "0", "2", "7", "0">>, ElectionDay, <<"1", "6">>, <<"1">>, <<"6", ".", "2", "5", " ", "%">>, <<"1">>, <<"0">>, <<"0">>, <<"1">>>>,
       <<<<"4", "3", "5", "1", "0">>, ElectionDay, <<"1", "7", "0", "1">>, <<"7">>, <<"0", ".", "4", "1", " ", "%">>, <<"5">>, <<"1">>, <<"0">>, <<"6">>>>,
       <<<<"5", "0", "1", "1", "1">>, ElectionDay, <<"6", "7", "2">>, <<"1", "3">>, <<"1", ".", "9", "3", " ", "%">>, <<"8">>, <<"5">>, <<"0">>, <<"1", "3">>>> >>

\* [...].map(assignRecordFromArray): no row of the literal throws
manuallyFixedRecords ==
    [i \in DOMAIN manuallyFixedRows |->
        assignRecordFromArray(manuallyFixedRows[i]).value]

\* mutant of MatchesFixed: the method is not compared
MatchesFixedAnyMethod(record, fixedRecord) ==
    /\ FieldAt(record, 0) = fixedRecord["Precinct"]
    /\ StrictEq(parseInt(FieldAt(record, 2)), fixedRecord["Registered Voters"])
    /\ StrictEq(parseInt(FieldAt(record, 3)), fixedRecord["Ballots Cast"])

\* the predicate of manuallyFixedRecords.find
MatchesFixed(record, fixedRecord) ==
    /\ FieldAt(record, 0) = fixedRecord["Precinct"]
    /\ FieldAt(record, 1) = fixedRecord["Method"]
    /\ StrictEq(parseInt(FieldAt(record, 2)), fixedRecord["Registered Voters"])
    /\ StrictEq(parseInt(FieldAt(record, 3)), fixedRecord["Ballots Cast"])

\* manuallyFixedRecords.find(...): the index of the first match, 0 for none
FindFixed(record) ==
    LET hits == {i \in DOMAIN manuallyFixedRecords :
                    MatchesFixed(record, manuallyFixedRecords[i])}
    IN  IF hits = {} THEN 0
        ELSE CHOOSE i \in hits : \A j \in hits : i <= j

ZeroPercent == <<"0", ".", "0", "0", " ", "%">>

\* The outcome of the repair callback on one stripped group:
\*   rule     the return statement taken (1..6, in the order of the source)
\*   isArray  whether the value returned is the group itself
\*   out      the value returned, or the error thrown
\*   warn     the arguments of console.warn
Outcome(rule, isArray, out, warn) ==
    [rule |-> rule, isArray |-> isArray, out |-> out, warn |-> warn]

\* mutant of cleanRecord: rule 3 never matches (its fields compared with the
\* number 0, not the string "0")
cleanRecordWithoutRule3(record) ==
    IF Len(record) = RecordLength
    THEN Outcome(1, FALSE, assignRecordFromArray(record), <<>>)
    ELSE IF FieldAt(record, 1) \notin validMethods
    THEN Outcome(2, TRUE, Return(record), <<>>)
    ELSE IF Len(record) = 5 /\ FieldAt(record, 4) = ZeroPercent
    THEN Outcome(4, FALSE,
             assignRecordFromArray(
                 <<record[1], record[2], record[3], record[4], ZeroPercent,
                   Str0, Str0, Str0, Str0>>), <<>>)
    ELSE IF FindFixed(record) # 0
    THEN Outcome(5, FALSE, Return(manuallyFixedRecords[FindFixed(record)]),
                 <<>>)
    ELSE Outcome(6, TRUE, Return(record), <<record>>)

\* mutant of cleanRecord: the group that matches nothing is not logged
cleanRecordWithoutWarning(record) ==
    IF Len(record) = RecordLength
    THEN Outcome(1, FALSE, assignRecordFromArray(record), <<>>)
    ELSE IF FieldAt(record, 1) \notin validMethods
    THEN Outcome(2, TRUE, Return(record), <<>>)
    ELSE IF Len(record) = 4 /\ FieldAt(record, 2) = <<"0">>
                            /\ FieldAt(record, 3) = <<"0">>
    THEN Outcome(3, FALSE,
             assignRecordFromArray(
                 <<record[1], record[2], Str0, Str0, ZeroPercent,
                   StrNaN, StrNaN, StrNaN, StrNaN>>), <<>>)
    ELSE IF Len(record) = 5 /\ FieldAt(record, 4) = ZeroPercent
    THEN Outcome(4, FALSE,
             assignRecordFromArray(
                 <<record[1], record[2], record[3], record[4], ZeroPercent,
                   Str0, Str0, Str0, Str0>>), <<>>)
    ELSE IF FindFixed(record) # 0
    THEN Outcome(5, FALSE, Return(manuallyFixedRecords[FindFixed(record)]),
                 <<>>)
    ELSE Outcome(6, TRUE, Return(record), <<>>)

cleanRecord(record) ==
    IF Len(record) = RecordLength
    THEN Outcome(1, FALSE, assignRecordFromArray(record), <<>>)
    ELSE IF FieldAt(record, 1) \notin validMethods
    THEN Outcome(2, TRUE, Return(record), <<>>)
    ELSE IF Len(record) = 4 /\ FieldAt(record, 2) = <<"0">>
                            /\ FieldAt(record, 3) = <<"0">>
    THEN Outcome(3, FALSE,
             assignRecordFromArray(
                 <<record[1], record[2], Str0, Str0, ZeroPercent,
                   StrNaN, StrNaN, StrNaN, StrNaN>>), <<>>)
    ELSE IF Len(record) = 5 /\ FieldAt(record, 4) = ZeroPercent
    THEN Outcome(4, FALSE,
             assignRecordFromArray(
                 <<record[1], record[2], record[3], record[4], ZeroPercent,
                   Str0, Str0, Str0, Str0>>), <<>>)
    ELSE IF FindFixed(record) # 0
    THEN Outcome(5, FALSE, Return(manuallyFixedRecords[FindFixed(record)]),
                 <<>>)
    ELSE Outcome(6, TRUE, Return(record), <<record>>)

-----------------------------------------------------------------------------
(* Reshape/Pivot Stage *)

\* splitCRecord / splitDRecord after the switch on record.Method; yes and no
\* are the record's counts for the measure
splitRecord(record, yes, no) ==
    LET base == ("Precinct" :> record["Precinct"])
                @@ ("Registered Voters" :> record["Registered Voters"])
                @@ ("Ballots Cast" :> record["Ballots Cast"])
                @@ ("City" :> record["City"])
                @@ ("District" :> record["District"])
    IN  CASE record["Method"] = ElectionDay ->
               base @@ ("YES - Election Day" :> yes)
                    @@ ("NO - Election Day" :> no)
          [] record["Method"] = VoteByMail ->
               base @@ ("YES - Vote by Mail" :> yes)
                    @@ ("NO - Vote by Mail" :> no)
          [] record["Method"] = Total ->
               base @@ ("YES - Total" :> yes) @@ ("NO - Total" :> no)
          [] OTHER -> base

splitCRecord(record) ==
    splitRecord(record, record["Measure C - YES"], record["Measure C - NO"])

splitDRecord(record) ==
    splitRecord(record, record["Measure D - YES"], record["Measure D - NO"])

\* frame[precinct] = Object.assign({}, frame[precinct], split)
MergeInto(frame, precinct, split) ==
    IF precinct \in DOMAIN frame
    THEN [p \in DOMAIN frame |->
             IF p = precinct THEN split @@ frame[p] ELSE frame[p]]
    ELSE [p \in DOMAIN frame \cup {precinct} |->
             IF p = precinct THEN split ELSE frame[p]]

\* the Frame without a key
EmptyFrame == [p \in {} |-> <<>>]

RECURSIVE PivotC(_, _)
\* the forEach of the first pass, for measure C: recs merged into frame in order
PivotC(recs, frame) ==
    IF recs = <<>> THEN frame
    ELSE PivotC(Tail(recs),
                MergeInto(frame, Head(recs)["Precinct"],
                          splitCRecord(Head(recs))))

RECURSIVE PivotD(_, _)
PivotD(recs, frame) ==
    IF recs = <<>> THEN frame
    ELSE PivotD(Tail(recs),
                MergeInto(frame, Head(recs)["Precinct"],
                          splitDRecord(Head(recs))))

\* record[column] in arithmetic: a missing column is undefined, which is NaN
Column(record, column) ==
    IF column \in DOMAIN record THEN record[column] ELSE NaN

Plus(a, b) == IF a.nan \/ b.nan THEN NaN ELSE Num(a.v + b.v)

\* a / b, kept as the fraction; 0 / 0 is NaN
Quotient(a, b) ==
    IF a.nan \/ b.nan \/ (a.v = 0 /\ b.v = 0) THEN NaN
    ELSE [nan |-> FALSE, num |-> a.v, den |-> b.v]

\* the two loops that set "% of NO" and "% of YES" on every Frame Record
WithRatios(frame) ==
    [p \in DOMAIN frame |->
        LET no == Column(frame[p], "NO - Total")
            yes == Column(frame[p], "YES - Total")
        IN  ("% of NO" :> Quotient(no, Plus(no, yes)))
            @@ ("% of YES" :> Quotient(yes, Plus(no, yes)))
            @@ frame[p]]

-----------------------------------------------------------------------------
(* The run: getDocument(pdfPath).promise.then(...).catch(...) *)

\* the value extractRecords returns: the results that are not arrays
Returned ==
    LET kept == SelectSeq(cleanerRecords, LAMBDA r : ~r.isArray)
    IN  [i \in DOMAIN kept |-> kept[i].out.value]

\* doc.getPage or page.getTextContent rejects: the catch reports it
GetPageRejected ==
    /\ pc = "pages"
    /\ pageNum <= LastPage
    /\ pc' = "failed"
    /\ err' = Append(err, <<"page not available">>)
    /\ UNCHANGED <<pageNum, content, fetched, records, idx, cleanerRecords,
                   warned, measureCRecords, measureDRecords, files, closed,
                   fnArg, fnOut>>

\* the page loop ends
FinishPages ==
    /\ pc = "pages"
    /\ pageNum > LastPage
    /\ pc' = "clean"
    /\ UNCHANGED <<pageNum, content, fetched, records, idx, cleanerRecords,
                   warned, err, measureCRecords, measureDRecords, files,
                   closed, fnArg, fnOut>>

\* mutant of CleanRecord: an error thrown for a group is swallowed and the
\* group is skipped
CleanRecordSkippingErrors ==
    /\ pc = "clean"
    /\ idx < Len(records)
    /\ LET outcome == cleanRecord(Strip(records[idx + 1]))
       IN  IF outcome.out.thrown
           THEN /\ idx' = idx + 1
                /\ cleanerRecords' =
                       Append(cleanerRecords,
                              Outcome(outcome.rule, TRUE,
                                      Return(Strip(records[idx + 1])), <<>>))
                /\ UNCHANGED <<pc, err, warned>>
           ELSE /\ idx' = idx + 1
                /\ cleanerRecords' = Append(cleanerRecords, outcome)
                /\ warned' = warned \o outcome.warn
                /\ UNCHANGED <<pc, err>>
    /\ UNCHANGED <<pageNum, content, fetched, records, measureCRecords,
                   measureDRecords, files, closed, fnArg, fnOut>>

\* the repair map handles the next group; an error thrown by the assembler
\* leaves extractRecords and the then-callback and is reported by the catch
CleanRecord ==
    /\ pc = "clean"
    /\ idx < Len(records)
    /\ LET outcome == cleanRecord(Strip(records[idx + 1]))
       IN  IF outcome.out.thrown
           THEN /\ pc' = "failed"
                /\ err' = Append(err, outcome.out.error)
                /\ UNCHANGED <<idx, cleanerRecords, warned>>
           ELSE /\ idx' = idx + 1
                /\ cleanerRecords' = Append(cleanerRecords, outcome)
                /\ warned' = warned \o outcome.warn
                /\ UNCHANGED <<pc, err>>
    /\ UNCHANGED <<pageNum, content, fetched, records, measureCRecords,
                   measureDRecords, files, closed, fnArg, fnOut>>

\* extractRecords returns the filtered results
ReturnRecords ==
    /\ pc = "clean"
    /\ idx = Len(records)
    /\ pc' = "pivot"
    /\ UNCHANGED <<pageNum, content, fetched, records, idx, cleanerRecords,
                   warned, err, measureCRecords, measureDRecords, files,
                   closed, fnArg, fnOut>>

\* the first pass: every returned record is merged into both Frames
Pivot ==
    /\ pc = "pivot"
    /\ measureCRecords' = PivotC(Returned, EmptyFrame)
    /\ measureDRecords' = PivotD(Returned, EmptyFrame)
    /\ pc' = "ratios"
    /\ UNCHANGED <<pageNum, content, fetched, records, idx, cleanerRecords,
                   warned, err, files, closed, fnArg, fnOut>>

Ratios ==
    /\ pc = "ratios"
    /\ measureDRecords' = WithRatios(measureDRecords)
    /\ measureCRecords' = WithRatios(measureCRecords)
    /\ pc' = "write"
    /\ UNCHANGED <<pageNum, content, fetched, records, idx, cleanerRecords,
                   warned, err, files, closed, fnArg, fnOut>>

\* writeArrowIPC up to its await, called for measure C, then for measure D
StartWrite ==
    /\ pc = "write"
    /\ LET filename == IF "measure-c.arrow" \notin files
                       THEN "measure-c.arrow" ELSE "measure-d.arrow"
       IN  /\ files' = files \cup {filename}
           /\ pc' = IF filename = "measure-d.arrow" THEN "await" ELSE "write"
    /\ UNCHANGED <<pageNum, content, fetched, records, idx, cleanerRecords,
                   warned, err, measureCRecords, measureDRecords, closed,
                   fnArg, fnOut>>

\* the stream of one file finishes; the two finish in either order
FinishWrite ==
    /\ pc = "await"
    /\ \E filename \in files \ closed : closed' = closed \cup {filename}
    /\ UNCHANGED <<pc, pageNum, content, fetched, records, idx,
                   cleanerRecords, warned, err, measureCRecords,
                   measureDRecords, files, fnArg, fnOut>>

\* Promise.all resolves
Done ==
    /\ pc = "await"
    /\ closed = {"measure-c.arrow", "measure-d.arrow"}
    /\ pc' = "done"
    /\ UNCHANGED <<pageNum, content, fetched, records, idx, cleanerRecords,
                   warned, err, measureCRecords, measureDRecords, files,
                   closed, fnArg, fnOut>>

-----------------------------------------------------------------------------
(* Input of Spec: pages made of whole lines *)

Absentee == <<"A", "b", "s", "e", "n", "t", "e", "e">>

LineFull == <<S20470, VoteByMail, <<"4", "1">>, <<"5">>, <<"1", "2", ".", "2", "0", " ", "%">>, <<"5">>, <<"0">>, <<"4">>, <<"1">>>>

LineFullElectionDay ==
    <<S20470, ElectionDay, <<"4", "1">>, <<"2">>, <<"4", ".", "8", "8", " ", "%">>, <<"2">>, <<"0">>, <<"1">>, <<"1">>>>

LineBadMethod ==
    <<S20470, Absentee, <<"4", "1">>, <<"5">>, <<"1", "2", ".", "2", "0", " ", "%">>, <<"5">>, <<"0">>, <<"4">>, <<"1">>>>

LineBadCity ==
    <<<<"2", "9", "0", "0", "0">>, Total, <<"4", "1">>, <<"5">>, <<"1", "2", ".", "2", "0", " ", "%">>, <<"5">>, <<"0">>, <<"4">>, <<"1">>>>

LineUnreported == <<<<"1", "0", "0", "5", "0">>, Total, <<"0">>, <<"0">>>>

LineUnreportedBadDistrict == <<<<"6", "0", "1", "0", "0">>, Total, <<"0">>, <<"0">>>>

LineNoVotes == <<<<"1", "0", "0", "5", "0">>, ElectionDay, <<"1", "2">>, <<"0">>, <<"0", ".", "0", "0", " ", "%">>>>

LineFixed ==
    <<<<"2", "3", "4", "1", "0">>, ElectionDay, <<"1", "9", "3">>, <<"2">>, <<"1", ".", "0", "4", " ", "%">>, <<"2">>, <<>>, <<" ">>, <<"2">>>>

LineCorrupt == <<S20470, Absentee, <<"4", "1">>>>

LineUnknown == <<<<"1", "0", "0", "5", "0">>, Total, <<"7">>, <<"3">>, <<"4", "2", ".", "8", "6", " ", "%">>, <<"3">>>>

LineSixDigits == <<<<"1", "2", "0", "4", "7", "0">>, Total, <<"0">>, <<"0">>>>

LineHeader == <<<<"P", "r", "e", "c", "i", "n", "c", "t">>, <<"M", "e", "t", "h", "o", "d">>, <<"R", "e", "g", "i", "s", "t", "e", "r", "e", "d">>>>

Lines ==
    {LineFull, LineFullElectionDay, LineBadMethod, LineBadCity,
     LineUnreported, LineUnreportedBadDistrict, LineNoVotes, LineFixed,
     LineCorrupt, LineUnknown, LineSixDigits, LineHeader}

\* the items of a line: its last token carries the end-of-line flag
LineItems(line) ==
    [i \in DOMAIN line |-> TextItem(line[i], i = Len(line))]

RECURSIVE Flatten(_)
Flatten(seqs) ==
    IF seqs = <<>> THEN <<>> ELSE Head(seqs) \o Flatten(Tail(seqs))

\* pages of at most n lines
LinePages(n) ==
    {Flatten([i \in DOMAIN ls |-> LineItems(ls[i])]) :
        ls \in UNION {[1..k -> Lines] : k \in 0..n}}

Init == InitPipeline

Next ==
    \/ GetPage(LinePages(MaxLines - fetched.lines))
    \/ GetPageRejected
    \/ FinishPages
    \/ CleanRecord
    \/ ReturnRecords
    \/ Pivot
    \/ Ratios
    \/ StartWrite
    \/ FinishWrite
    \/ Done

Spec == Init /\ [][Next]_vars

-----------------------------------------------------------------------------
(* The functions on their own: SpecFn calls one of them on one argument *)

IdChars == {"0", "1", "2", "4", "5", "6", "9", "a"}

LongIds == {S20470, <<"1", "0", "0", "5", "0">>, <<"2", "9", "0", "0", "0">>, <<"6", "0", "1", "0", "0">>, <<"1", "2", "0", "4", "7", "0">>}

\* identifier strings: every string of at most MaxIdLen characters of
\* IdChars, and some of five and six digits
IdStrings == UNION {[1..k -> IdChars] : k \in 0..MaxIdLen} \cup LongIds

ArrayFields(id, method, registered) ==
    <<id, method, registered, <<"5">>, <<"1", "2", ".", "2", "0", " ", "%">>, <<"5">>, <<"0">>, <<"4">>, <<"1">>,
      <<"7">>, <<"7">>>>

\* lists of 0 to 11 fields
Arrays ==
    {SubSeq(ArrayFields(id, method, registered), 1, n) :
        id \in IdStrings, method \in {Total, Absentee},
        registered \in {<<"4", "1">>, <<"n", "/", "a">>}, n \in 0..11}

GroupIds ==
    {S20470, <<"2", "3", "4", "1", "0">>, <<"2", "3", "6", "6", "0">>, <<"4", "0", "0", "1", "0">>, <<"4", "0", "2", "7", "0">>, <<"4", "3", "5", "1", "0">>, <<"5", "0", "1", "1", "1">>,
     <<"1", "0", "0", "5", "0">>, <<"2", "9", "0", "0", "0">>, <<"6", "0", "1", "0", "0">>, <<"1", "2", "0", "4", "7", "0">>}

GroupRegistered ==
    {<<"0">>, <<"1">>, <<"3">>, <<"1", "6">>, <<"4", "1">>, <<"1", "9", "3">>, <<"6", "7", "2">>, <<"1", "7", "0", "1">>, <<"4", "1", "a">>}

GroupCast == {<<"0">>, <<"1">>, <<"2">>, <<"5">>, <<"7">>, <<"1", "3">>, <<"5", "a">>}

GroupTails ==
    {<<>>, <<ZeroPercent>>, <<<<"1", "2", ".", "2", "0", " ", "%">>>>,
     <<<<"1", "2", ".", "2", "0", " ", "%">>, <<"5">>, <<"4">>, <<"1">>>>,
     <<<<"1", "2", ".", "2", "0", " ", "%">>, <<"5">>, <<"0">>, <<"4">>, <<"1">>>>,
     <<<<>>, <<"1", "2", ".", "2", "0", " ", "%">>, <<"5">>, <<" ">>, <<"4">>, <<"1">>>>}

\* candidate groups as the grouper retains them
Groups ==
    {g \in {<<id, method, registered, cast>> \o tail :
                id \in GroupIds, method \in validMethods \cup {Absentee},
                registered \in GroupRegistered, cast \in GroupCast,
                tail \in GroupTails}
           \cup {<<id, method, <<>>>> :
                    id \in GroupIds, method \in {Total, <<" ">>}} :
        Retained(g)}

InitFn ==
    /\ pc = "call"
    /\ fnArg \in [fn : {"assignCity"}, arg : IdStrings]
                 \cup [fn : {"assignRecordFromArray"}, arg : Arrays]
                 \cup [fn : {"cleanRecord"}, arg : Groups]
    /\ fnOut = <<>>
    /\ pageNum = FirstPage
    /\ content = <<>>
    /\ fetched = [items |-> 0, lines |-> 0]
    /\ records = <<>>
    /\ idx = 0
    /\ cleanerRecords = <<>>
    /\ warned = <<>>
    /\ err = <<>>
    /\ measureCRecords = <<>>
    /\ measureDRecords = <<>>
    /\ files = {}
    /\ closed = {}

CallAssignCity ==
    /\ pc = "call"
    /\ fnArg.fn = "assignCity"
    /\ fnOut' = assignCity(fnArg.arg)
    /\ pc' = "returned"
    /\ UNCHANGED <<pageNum, content, fetched, records, idx, cleanerRecords,
                   warned, err, measureCRecords, measureDRecords, files,
                   closed, fnArg>>

CallAssignRecordFromArray ==
    /\ pc = "call"
    /\ fnArg.fn = "assignRecordFromArray"
    /\ fnOut' = assignRecordFromArray(fnArg.arg)
    /\ pc' = "returned"
    /\ UNCHANGED <<pageNum, content, fetched, records, idx, cleanerRecords,
                   warned, err, measureCRecords, measureDRecords, files,
                   closed, fnArg>>

\* the two maps of extractRecords on one group: strip, then repair
CallCleanRecord ==
    /\ pc = "call"
    /\ fnArg.fn = "cleanRecord"
    /\ fnOut' = cleanRecord(Strip(fnArg.arg))
    /\ pc' = "returned"
    /\ UNCHANGED <<pageNum, content, fetched, records, idx, cleanerRecords,
                   warned, err, measureCRecords, measureDRecords, files,
                   closed, fnArg>>

NextFn == CallAssignCity \/ CallAssignRecordFromArray \/ CallCleanRecord

SpecFn == InitFn /\ [][NextFn]_vars

-----------------------------------------------------------------------------
(* Claims about the functions, checked under SpecFn *)

\* an identifier both classifiers accept: second character in 0..4 and
\* first character in 1..5
Classifiable(id) ==
    /\ Len(id) >= 2
    /\ id[2] \in {"0", "1", "2", "3", "4"}
    /\ id[1] \in {"1", "2", "3", "4", "5"}

RawRecordKeys ==
    {"Precinct", "City", "District", "Method", "Registered Voters",
     "Ballots Cast", "Measure C - YES", "Measure C - NO", "Measure D - YES",
     "Measure D - NO"}

\* the group is one of exactly 4 fields with a recognised method and "0", "0"
IsUnreported(r) ==
    /\ Len(r) = 4
    /\ r[2] \in {ElectionDay, VoteByMail, Total}
    /\ r[3] = <<"0">>
    /\ r[4] = <<"0">>

\* the outcome is the synthesized unreported-precinct record of group r
IsSynthesizedUnreported(outcome, r) ==
    /\ ~outcome.isArray
    /\ ~outcome.out.thrown
    /\ outcome.out.value["Precinct"] = r[1]
    /\ outcome.out.value["Method"] = r[2]
    /\ outcome.out.value["Registered Voters"] = Num(0)
    /\ outcome.out.value["Ballots Cast"] = Num(0)
    /\ \A k \in {"Measure C - YES", "Measure C - NO", "Measure D - YES",
                 "Measure D - NO"} : outcome.out.value[k].nan

\* C1 as stated: every 4-field group with a recognised method and "0", "0"
\* yields the synthesized unreported-precinct record, whatever its
\* identifier, and the correction table is not searched for it.
C1_UnreportedAlwaysSynthesized ==
    (pc = "returned" /\ fnArg.fn = "cleanRecord"
        /\ IsUnreported(Strip(fnArg.arg)))
    => /\ fnOut.rule \notin {5, 6}
       /\ IsSynthesizedUnreported(fnOut, Strip(fnArg.arg))

\* C1 amended: such a group is always settled by rule 3, so the correction
\* table is never searched for it; it yields the synthesized record when its
\* identifier is classifiable, and the assembler's classification error
\* otherwise.
C1_UnreportedSettledByRule3 ==
    (pc = "returned" /\ fnArg.fn = "cleanRecord"
        /\ IsUnreported(Strip(fnArg.arg)))
    => /\ fnOut.rule = 3
       /\ IF Classifiable(Strip(fnArg.arg)[1])
          THEN IsSynthesizedUnreported(fnOut, Strip(fnArg.arg))
          ELSE fnOut.out.thrown
               /\ fnOut.out.error[1] \in
                     {"Invalid precinct", "Invalid district code in precinct: "}

\* a group of a correction entry's precinct, with "0", "0", is synthesized
C1_Witness ==
    /\ pc = "returned"
    /\ fnArg.fn = "cleanRecord"
    /\ fnArg.arg = <<S20470, Total, <<"0">>, <<"0">>>>
    /\ fnOut.rule = 3
    /\ IsSynthesizedUnreported(fnOut, fnArg.arg)

\* the first four fields of r are row's identifier and method and strings
\* parsing to row's registered and cast counts
MatchesRow(r, row) ==
    /\ Len(r) >= 4
    /\ r[1] = row[1]
    /\ r[2] = row[2]
    /\ parseInt(r[3]) = parseInt(row[3])
    /\ parseInt(r[4]) = parseInt(row[4])

\* C2 as stated: every group whose length is not 9 and whose first four
\* fields match a correction entry yields exactly that entry's record.
C2_RoundTrip ==
    (pc = "returned" /\ fnArg.fn = "cleanRecord")
    => \A i \in DOMAIN manuallyFixedRows :
          (Len(Strip(fnArg.arg)) # 9
              /\ MatchesRow(Strip(fnArg.arg), manuallyFixedRows[i]))
          => /\ ~fnOut.isArray
             /\ fnOut.out = assignRecordFromArray(manuallyFixedRows[i])

\* C2 amended: the same, for groups that rule 4 does not take first, that is
\* groups other than those of exactly 5 fields whose fifth field is "0.00 %".
C2_RoundTripUnlessNoVotes ==
    (pc = "returned" /\ fnArg.fn = "cleanRecord")
    => \A i \in DOMAIN manuallyFixedRows :
          (Len(Strip(fnArg.arg)) # 9
              /\ MatchesRow(Strip(fnArg.arg), manuallyFixedRows[i])
              /\ ~(Len(Strip(fnArg.arg)) = 5
                    /\ Strip(fnArg.arg)[5] = <<"0", ".", "0", "0", " ", "%">>))
          => /\ ~fnOut.isArray
             /\ fnOut.out = assignRecordFromArray(manuallyFixedRows[i])

\* a group with blank fields, matching the second row for precinct 20470,
\* whose registered count is written "41a"
C2_Witness ==
    /\ pc = "returned"
    /\ fnArg.fn = "cleanRecord"
    /\ Len(fnArg.arg) = 10
    /\ Len(Strip(fnArg.arg)) = 8
    /\ MatchesRow(Strip(fnArg.arg), manuallyFixedRows[2])
    /\ fnArg.arg[3] = <<"4", "1", "a">>
    /\ fnOut.out = assignRecordFromArray(manuallyFixedRows[2])

\* C3 as stated: a Raw Record for every 9-element list, a failure for every
\* list of another length.
C3_TotalOnLength9 ==
    (pc = "returned" /\ fnArg.fn = "assignRecordFromArray")
    => (fnOut.thrown <=> Len(fnArg.arg) # 9)

\* C3 amended: "Record incorrect length" for every list whose length is not
\* 9; for a 9-element list a Raw Record exactly when the identifier is
\* classifiable, and the classifier's error otherwise.
C3_AssembleOnLength9 ==
    (pc = "returned" /\ fnArg.fn = "assignRecordFromArray")
    => IF Len(fnArg.arg) # 9
       THEN fnOut.thrown /\ fnOut.error = <<"Record incorrect length">>
       ELSE IF Classifiable(fnArg.arg[1])
       THEN /\ ~fnOut.thrown
            /\ DOMAIN fnOut.value = RawRecordKeys
            /\ fnOut.value["Precinct"] = fnArg.arg[1]
            /\ fnOut.value["Method"] = fnArg.arg[2]
       ELSE /\ fnOut.thrown
            /\ fnOut.error[1] \in
                  {"Invalid precinct", "Invalid district code in precinct: "}

\* a list of 10 fields with a classifiable identifier is refused
C3_Witness ==
    /\ pc = "returned"
    /\ fnArg.fn = "assignRecordFromArray"
    /\ Len(fnArg.arg) = 10
    /\ Classifiable(fnArg.arg[1])
    /\ fnOut.thrown

\* C4: assignCity returns "Unincorporated D<N>" when the second character is
\* "0" and the first is N in 1..5, "Unincorporated" when the second is "0"
\* and the first is outside 1..5, the city of the table when the second is 1,
\* 2, 3 or 4, and fails with the invalid-precinct error for the empty string
\* and for any other second character.
C4_AssignCity ==
    (pc = "returned" /\ fnArg.fn = "assignCity")
    => LET s == fnArg.arg
       IN  IF Len(s) < 2 THEN fnOut = Throw(<<"Invalid precinct">>)
           ELSE CASE s[2] = "0" /\ s[1] = "1" ->
                       fnOut = Return("Unincorporated D1")
                  [] s[2] = "0" /\ s[1] = "2" ->
                       fnOut = Return("Unincorporated D2")
                  [] s[2] = "0" /\ s[1] = "3" ->
                       fnOut = Return("Unincorporated D3")
                  [] s[2] = "0" /\ s[1] = "4" ->
                       fnOut = Return("Unincorporated D4")
                  [] s[2] = "0" /\ s[1] = "5" ->
                       fnOut = Return("Unincorporated D5")
                  [] s[2] = "0" /\ s[1] \notin {"1", "2", "3", "4", "5"} ->
                       fnOut = Return("Unincorporated")
                  [] s[2] = "1" -> fnOut = Return("Santa Cruz")
                  [] s[2] = "2" -> fnOut = Return("Capitola")
                  [] s[2] = "3" -> fnOut = Return("Watsonville")
                  [] s[2] = "4" -> fnOut = Return("Scotts Valley")
                  [] OTHER -> fnOut = Throw(<<"Invalid precinct">>)

\* "50" is classified as the unincorporated area of district 5
C4_Witness ==
    /\ pc = "returned"
    /\ fnArg.fn = "assignCity"
    /\ fnArg.arg = <<"5", "0">>
    /\ fnOut = Return("Unincorporated D5")

-----------------------------------------------------------------------------
(* Claims about the run, checked under Spec *)

\* the groups of cleanerRecords left unresolved (arrays)
Unresolved == {i \in DOMAIN cleanerRecords : cleanerRecords[i].isArray}

\* C5: every group the repair pipeline leaves unresolved, by rule 2 or by
\* rule 6, is logged with its contents, is excluded from the records
\* returned, and does not abort the run.
C5_UnresolvedLoggedAndExcluded ==
    /\ \A i \in Unresolved :
          /\ cleanerRecords[i].rule \in {2, 6}
          /\ \E k \in DOMAIN warned : warned[k] = cleanerRecords[i].out.value
    /\ Len(Returned) = Len(cleanerRecords) - Cardinality(Unresolved)
    /\ pc = "failed"
          => \/ err = <<<<"page not available">>>>
             \/ /\ idx < Len(records)
                /\ cleanRecord(Strip(records[idx + 1])).out.thrown
                /\ err = <<cleanRecord(Strip(records[idx + 1])).out.error>>

\* C5 amended: every group left unresolved is excluded from the records
\* returned and from the Frames and does not abort the run; the groups that
\* reach rule 6 are logged with their contents, in order, and the groups
\* rejected by rule 2 are dropped without a log entry.
C5_UnresolvedExcludedRule6Logged ==
    /\ \A i \in Unresolved : cleanerRecords[i].rule \in {2, 6}
    /\ LET logged == SelectSeq(cleanerRecords, LAMBDA r : r.rule = 6)
       IN  warned = [k \in DOMAIN logged |-> logged[k].out.value]
    /\ Len(Returned) = Len(cleanerRecords) - Cardinality(Unresolved)
    /\ pc \in {"ratios", "write", "await", "done"}
          => DOMAIN measureCRecords =
                {cleanerRecords[i].out.value["Precinct"] :
                    i \in DOMAIN cleanerRecords \ Unresolved}
    /\ pc = "failed"
          => \/ err = <<<<"page not available">>>>
             \/ /\ idx < Len(records)
                /\ cleanRecord(Strip(records[idx + 1])).out.thrown
                /\ err = <<cleanRecord(Strip(records[idx + 1])).out.error>>

\* a run that dropped a group by rule 2 and one by rule 6, logged the second
\* only, and went on to write its (empty) Frames
C5_Witness ==
    /\ pc = "done"
    /\ Len(cleanerRecords) = 2
    /\ cleanerRecords[1].rule = 2
    /\ cleanerRecords[2].rule = 6
    /\ cleanerRecords[1].isArray
    /\ cleanerRecords[2].isArray
    /\ warned = <<cleanerRecords[2].out.value>>
    /\ Returned = <<>>
    /\ DOMAIN measureCRecords = {}

MethodColumns ==
    {"YES - Election Day", "NO - Election Day", "YES - Vote by Mail",
     "NO - Vote by Mail", "YES - Total", "NO - Total"}

\* split holds exactly one of the three YES/NO column pairs
OnePair(split) ==
    DOMAIN split \cap MethodColumns \in
        {{"YES - Election Day", "NO - Election Day"},
         {"YES - Vote by Mail", "NO - Vote by Mail"},
         {"YES - Total", "NO - Total"}}

\* C6: every Raw Record handed to the pivot has one of the three reporting
\* methods, and each of its two partial Frame Records holds exactly one of
\* the three YES/NO column pairs.
C6_OneMethodPair ==
    pc = "pivot"
    => \A j \in DOMAIN Returned :
          /\ Returned[j]["Method"] \in {ElectionDay, VoteByMail, Total}
          /\ OnePair(splitCRecord(Returned[j]))
          /\ OnePair(splitDRecord(Returned[j]))

\* C7: every Raw Record returned by extractRecords has a Precinct of exactly
\* 5 decimal digits.
C7_PrecinctFiveDigits ==
    pc = "pivot"
    => \A j \in DOMAIN Returned :
          /\ Len(Returned[j]["Precinct"]) = 5
          /\ \A k \in 1..5 : Returned[j]["Precinct"][k] \in DigitChars

\* the repair of group i throws
ThrowsAt(i) == cleanRecord(Strip(records[i])).out.thrown

\* C8: a classification failure raised while assembling any group aborts the
\* run: the error is reported and no output file is written; and the write
\* of an output file begins only after every group has been repaired and
\* assembled without error and the Frames have been pivoted.
C8_NoOutputOnFailure ==
    /\ (pc \notin {"pages", "clean"} /\ \E i \in DOMAIN records : ThrowsAt(i))
          => pc = "failed" /\ err # <<>>
    /\ pc = "failed" => files = {} /\ closed = {} /\ err # <<>>
    /\ files # {}
          => /\ pc \in {"write", "await", "done"}
             /\ err = <<>>
             /\ idx = Len(records)
             /\ Len(cleanerRecords) = Len(records)
             /\ \A i \in DOMAIN records : ~ThrowsAt(i)
             /\ measureCRecords = WithRatios(PivotC(Returned, EmptyFrame))
             /\ measureDRecords = WithRatios(PivotD(Returned, EmptyFrame))

\* the run failed on the invalid precinct of its second group, after
\* repairing the first
C8_Witness ==
    /\ pc = "failed"
    /\ idx = 1
    /\ Len(records) = 2
    /\ err = <<<<"Invalid precinct">>>>
    /\ files = {}

\* no two records of recs have the same identifier and method
UniqueKeys(recs) ==
    \A i, j \in DOMAIN recs :
        (recs[i]["Precinct"] = recs[j]["Precinct"]
            /\ recs[i]["Method"] = recs[j]["Method"]) => i = j

\* C10: with valid records, at most one per (identifier, method), merging
\* them in any order gives the same two Frames.
C10_OrderIndependent ==
    (pc = "ratios" /\ UniqueKeys(Returned)
        /\ \A j \in DOMAIN Returned :
              Returned[j]["Method"] \in {ElectionDay, VoteByMail, Total})
    => \A f \in Permutations(DOMAIN Returned) :
          /\ PivotC([i \in DOMAIN Returned |-> Returned[f[i]]], EmptyFrame)
                = measureCRecords
          /\ PivotD([i \in DOMAIN Returned |-> Returned[f[i]]], EmptyFrame)
                = measureDRecords

-----------------------------------------------------------------------------
(* Claim about the Run Grouper, checked under SpecGrouper *)

\* the text items of a page, in order
TextItems(items) == SelectSeq(items, LAMBDA item : "str" \in DOMAIN item)

\* positions, among the text items, of the end-of-line flags
LineEnds(text) == {e \in DOMAIN text : text[e].hasEOL}

\* the run of text tokens that ends at the end-of-line flag e: it starts
\* after the previous flag, or at the page start
RunEndingAt(text, e) ==
    LET earlier == {j \in LineEnds(text) : j < e}
        start == IF earlier = {} THEN 1
                 ELSE 1 + CHOOSE j \in earlier : \A k \in earlier : k <= j
    IN  [k \in 1..(e - start + 1) |-> text[start + k - 1].str]

\* the runs of a page that pass the retention test, in page order
RetainedRuns(items) ==
    LET text == TextItems(items)
        kept == {e \in LineEnds(text) : Retained(RunEndingAt(text, e))}
        nth(n) == CHOOSE e \in kept : Cardinality({j \in kept : j <= e}) = n
    IN  [n \in 1..Cardinality(kept) |-> RunEndingAt(text, nth(n))]

\* C9: on every page the groups added to records are exactly the runs of
\* consecutive text tokens of that page between end-of-line flags that pass
\* the retention test, in order; each has more than 2 tokens; nothing of an
\* earlier page or line, and nothing after the page's last flag, is in them.
C9_GroupsAreLines ==
    [][pageNum' = pageNum + 1
        => /\ records' = records \o RetainedRuns(content')
           /\ \A i \in DOMAIN records' : Len(records'[i]) > 2]_vars

\* a page after the first one whose rejected one-token line is followed by a
\* retained line of three tokens and by a token without flag
C9_Witness ==
    /\ pageNum > FirstPage + 1
    /\ content = <<TextItem(SWord, TRUE), TextItem(S20470, FALSE),
                   TextItem(SWord, FALSE), TextItem(SWord, TRUE),
                   TextItem(S20470, FALSE)>>
    /\ records = <<<<S20470, SWord, SWord>>>>

=============================================================================
